---- MODULE Spec2Model ----
(***************************************************************************)
(* Order execution and portfolio accounting core of the trading backend    *)
(* (app.py): validate_order, execute_order, update_portfolio and the       *)
(* place_order handler, over the in-memory stores orders, trades and       *)
(* portfolio.                                                              *)
(*                                                                         *)
(* Money is counted in cents (175.50 is 17550).  averagePrice and          *)
(* totalInvested are exact rationals [n, d] in lowest terms, so the        *)
(* division of update_portfolio is carried out exactly.  A JSON value that *)
(* may be a number, null or a string is a tagged record [kind, v]: for a   *)
(* string v counts the repetitions of the submitted text (Python's         *)
(* str * int repeats the string).  Quantities are JSON integers.           *)
(***************************************************************************)
EXTENDS Integers, Sequences, FiniteSets, TLC

VARIABLES
    orders, trades, portfolio,  \* the in-memory stores
    request, response,          \* the last body POSTed and the last response sent
    validation,                 \* the last (is_valid, errors) of validate_order
    threads,                    \* the locals of the place_order calls in flight
    overlapped                  \* history: two calls have run at the same time

vars == <<orders, trades, portfolio, request, response, validation, threads, overlapped>>

\* Number of orders the store is explored up to.
MaxOrders == 3

\* Number of orders stored while calls of place_order run side by side.
MaxRacedOrders == 2

(***************************************************************************)
(* Values                                                                  *)
(***************************************************************************)
None == [kind |-> "null", v |-> 0]

Num(x) == [kind |-> "num", v |-> x]

Str(n) == [kind |-> "str", v |-> n]

\* The outcome of an operation Python rejects with a TypeError.
TypeError == [kind |-> "TypeError", v |-> 0]

\* Mul with the slip of leaving the quantity out of the product.
Mul_PriceOnly(val, q) ==
    IF val.kind \in {"num", "str"} THEN val ELSE TypeError

\* value * quantity as Python evaluates it for an int quantity.
Mul(val, q) ==
    IF val.kind = "num" THEN Num(val.v * q)
    ELSE IF val.kind = "str" THEN Str(val.v * q)
    ELSE TypeError

Abs(x) == IF x < 0 THEN -x ELSE x

RECURSIVE GCD(_, _)
GCD(a, b) == IF b = 0 THEN a ELSE GCD(b, a % b)

\* The rational n/d (d > 0) in lowest terms.
Rat(n, d) ==
    LET g == GCD(Abs(n), d)
    IN  [n |-> n \div g, d |-> d \div g]

RInt(x) == [n |-> x, d |-> 1]

Zero == RInt(0)

RAdd(a, b) == Rat(a.n * b.d + b.n * a.d, a.d * b.d)

RMulInt(a, k) == Rat(a.n * k, a.d)

\* a / k for an integer k > 0.
RDivInt(a, k) == Rat(a.n, a.d * k)

(***************************************************************************)
(* Enums and the instrument catalog                                        *)
(***************************************************************************)
OrderType == <<"BUY", "SELL">>

OrderStyle == <<"MARKET", "LIMIT">>

OrderStatus == <<"NEW", "PLACED", "EXECUTED", "CANCELLED">>

Values(enum) == {enum[i] : i \in 1..Len(enum)}

instruments ==
    << [symbol |-> "AAPL",  exchange |-> "NASDAQ", instrumentType |-> "STOCK", lastTradedPrice |-> 17550],
       [symbol |-> "GOOGL", exchange |-> "NASDAQ", instrumentType |-> "STOCK", lastTradedPrice |-> 14025],
       [symbol |-> "MSFT",  exchange |-> "NASDAQ", instrumentType |-> "STOCK", lastTradedPrice |-> 38000],
       [symbol |-> "TSLA",  exchange |-> "NASDAQ", instrumentType |-> "STOCK", lastTradedPrice |-> 24575],
       [symbol |-> "AMZN",  exchange |-> "NASDAQ", instrumentType |-> "STOCK", lastTradedPrice |-> 15530] >>

\* Python's None as the result of a failed lookup.
NoInstrument == [symbol |-> "None"]

get_instrument_by_symbol(symbol) ==
    LET hits == {i \in 1..Len(instruments) : instruments[i].symbol = symbol}
    IN  IF hits = {} THEN NoInstrument
        ELSE instruments[CHOOSE i \in hits : \A j \in hits : i <= j]

(***************************************************************************)
(* Order Validator                                                         *)
(***************************************************************************)
required_fields == <<"symbol", "orderType", "orderStyle", "quantity">>

\* The errors of the first loop: one per absent required field, in order.
RECURSIVE MissingErrors(_, _)
MissingErrors(order_data, i) ==
    IF i > Len(required_fields) THEN <<>>
    ELSE (IF required_fields[i] \in order_data.has THEN <<>>
          ELSE <<"Missing required field: " \o required_fields[i]>>)
         \o MissingErrors(order_data, i + 1)

\* validate_order with the slip of running the later checks although a
\* required field is missing.
validate_order_NoEarlyReturn(order_data) ==
    LET missing == MissingErrors(order_data, 1)
        e1 == IF order_data.quantity <= 0
              THEN <<"Quantity must be greater than 0">> ELSE <<>>
        e2 == IF order_data.orderType \notin Values(OrderType)
              THEN <<"Invalid orderType. Must be one of: ['BUY', 'SELL']">> ELSE <<>>
        e3 == IF order_data.orderStyle \notin Values(OrderStyle)
              THEN <<"Invalid orderStyle. Must be one of: ['MARKET', 'LIMIT']">> ELSE <<>>
        e4 == IF order_data.orderStyle = "LIMIT" /\ "price" \notin order_data.has
              THEN <<"Price is mandatory for LIMIT orders">> ELSE <<>>
        e5 == IF get_instrument_by_symbol(order_data.symbol) = NoInstrument
              THEN <<"Instrument " \o order_data.symbol \o " not found">> ELSE <<>>
        errors == missing \o e1 \o e2 \o e3 \o e4 \o e5
    IN  IF errors # <<>> THEN [is_valid |-> FALSE, errors |-> errors]
        ELSE [is_valid |-> TRUE, errors |-> <<>>]

validate_order(order_data) ==
    LET missing == MissingErrors(order_data, 1)
        e1 == IF order_data.quantity <= 0
              THEN <<"Quantity must be greater than 0">> ELSE <<>>
        e2 == IF order_data.orderType \notin Values(OrderType)
              THEN <<"Invalid orderType. Must be one of: ['BUY', 'SELL']">> ELSE <<>>
        e3 == IF order_data.orderStyle \notin Values(OrderStyle)
              THEN <<"Invalid orderStyle. Must be one of: ['MARKET', 'LIMIT']">> ELSE <<>>
        e4 == IF order_data.orderStyle = "LIMIT" /\ "price" \notin order_data.has
              THEN <<"Price is mandatory for LIMIT orders">> ELSE <<>>
        e5 == IF get_instrument_by_symbol(order_data.symbol) = NoInstrument
              THEN <<"Instrument " \o order_data.symbol \o " not found">> ELSE <<>>
        errors == e1 \o e2 \o e3 \o e4 \o e5
    IN  IF missing # <<>> THEN [is_valid |-> FALSE, errors |-> missing]
        ELSE IF errors # <<>> THEN [is_valid |-> FALSE, errors |-> errors]
        ELSE [is_valid |-> TRUE, errors |-> <<>>]

(***************************************************************************)
(* Portfolio Ledger                                                        *)
(***************************************************************************)
\* del portfolio[symbol]
Remove(pf, symbol) == [s \in DOMAIN pf \ {symbol} |-> pf[s]]

NewHolding(symbol) ==
    [symbol |-> symbol, quantity |-> 0, averagePrice |-> Zero, totalInvested |-> Zero]

\* BuyHolding with the slip of taking the latest price as the average.
BuyHolding_LastPrice(holding, quantity, price) ==
    LET total_cost == RAdd(RMulInt(holding.averagePrice, holding.quantity),
                           RInt(quantity * price))
        new_quantity == holding.quantity + quantity
    IN  [holding EXCEPT
           !.quantity = new_quantity,
           !.averagePrice = RInt(price),
           !.totalInvested = total_cost]

\* The BUY branch: the holding after buying quantity at the number price.
BuyHolding(holding, quantity, price) ==
    LET total_cost == RAdd(RMulInt(holding.averagePrice, holding.quantity),
                           RInt(quantity * price))
        new_quantity == holding.quantity + quantity
    IN  [holding EXCEPT
           !.quantity = new_quantity,
           !.averagePrice = IF new_quantity > 0
                            THEN RDivInt(total_cost, new_quantity)
                            ELSE Zero,
           !.totalInvested = total_cost]

\* SellHolding with the slip of taking the proceeds off the invested total.
SellHolding_Proceeds(holding, quantity, price) ==
    LET left == holding.quantity - quantity
    IN  [holding EXCEPT
           !.quantity = left,
           !.totalInvested = IF price.kind = "num"
                             THEN RAdd(holding.totalInvested, RInt(-(quantity * price.v)))
                             ELSE holding.totalInvested]

\* SellHolding with the slip of re-averaging the remaining shares.
SellHolding_Reaverage(holding, quantity, price) ==
    LET left == holding.quantity - quantity
        rest == IF price.kind = "num"
                THEN RAdd(holding.totalInvested, RInt(-(quantity * price.v)))
                ELSE holding.totalInvested
    IN  [holding EXCEPT
           !.quantity = left,
           !.averagePrice = RDivInt(rest, left),
           !.totalInvested = rest]

\* The SELL branch when something is left: the holding after selling quantity.
SellHolding(holding, quantity, price) ==
    LET left == holding.quantity - quantity
    IN  [holding EXCEPT
           !.quantity = left,
           !.totalInvested = RMulInt(holding.averagePrice, left)]

\* The SELL branch's test for deleting the position.
SellRemoves(left) == left <= 0

\* The portfolio after the call, and whether the call raised.
update_portfolio(pf, symbol, order_type, quantity, price) ==
    LET pf0 == IF symbol \in DOMAIN pf THEN pf ELSE pf @@ (symbol :> NewHolding(symbol))
        holding == pf0[symbol]
    IN  IF order_type = "BUY" THEN
            IF price.kind # "num"
            THEN \* number + (quantity * price) raises before holding is touched
                 [portfolio |-> pf0, raised |-> TRUE]
            ELSE [portfolio |-> [pf0 EXCEPT ![symbol] = BuyHolding(holding, quantity, price.v)],
                  raised |-> FALSE]
        ELSE IF order_type = "SELL" THEN
            IF SellRemoves(holding.quantity - quantity)
            THEN [portfolio |-> Remove(pf0, symbol), raised |-> FALSE]
            ELSE [portfolio |-> [pf0 EXCEPT ![symbol] = SellHolding(holding, quantity, price)],
                  raised |-> FALSE]
        ELSE [portfolio |-> pf0, raised |-> FALSE]

(***************************************************************************)
(* Execution Engine                                                        *)
(***************************************************************************)
NoTrade == [tradeId |-> 0]

\* ExecutionPrice with the slip of honouring a price sent with a MARKET order.
ExecutionPrice_PriceIfSent(order, instrument) ==
    IF order.orderStyle = "MARKET" /\ order.price.kind = "null"
    THEN Num(instrument.lastTradedPrice)
    ELSE order.price

\* The price an order executes at.
ExecutionPrice(order, instrument) ==
    IF order.orderStyle = "MARKET"
    THEN Num(instrument.lastTradedPrice)
    ELSE order.price

\* AppendTrade with the slip of putting the newest trade first.
AppendTrade_NewestFirst(trs, trade) == <<trade>> \o trs

\* trades.append(trade)
AppendTrade(trs, trade) == Append(trs, trade)

\* The three stores after the call, the trade it returns, and whether it
\* raised (the stores then hold what was written before the exception).
execute_order(ords, trs, pf, order_id) ==
    LET order == ords[order_id]
        instrument == get_instrument_by_symbol(order.symbol)
        execution_price == ExecutionPrice(order, instrument)
        executed == [order EXCEPT !.status = "EXECUTED",
                                  !.executedAt = "now",
                                  !.executionPrice = execution_price]
        ords1 == [ords EXCEPT ![order_id] = executed]
        totalValue == Mul(execution_price, order.quantity)
    IN  IF totalValue = TypeError
        THEN [orders |-> ords1, trades |-> trs, portfolio |-> pf,
              trade |-> NoTrade, raised |-> TRUE]
        ELSE LET trade == [tradeId |-> Len(trs) + 1,
                           orderId |-> order_id,
                           symbol |-> order.symbol,
                           orderType |-> order.orderType,
                           quantity |-> order.quantity,
                           price |-> execution_price,
                           totalValue |-> totalValue,
                           executedAt |-> "now"]
                 up == update_portfolio(pf, order.symbol, order.orderType,
                                        order.quantity, execution_price)
             IN  [orders |-> ords1, trades |-> AppendTrade(trs, trade),
                  portfolio |-> up.portfolio, trade |-> trade, raised |-> up.raised]

(***************************************************************************)
(* POST /api/v1/orders                                                     *)
(***************************************************************************)
NoOrder == [orderId |-> 0]

\* A response body without a "data" list.
NoData == [kind |-> "none"]

\* order_data.get("price")
GetPrice(order_data) == IF "price" \in order_data.has THEN order_data.price ELSE None

\* uuid.uuid4(): an id no stored order has.
uuid4(ords) == Cardinality(DOMAIN ords) + 1

\* The order place_order builds and stores; it is PLACED before it executes.
MakeOrder(order_id, order_data) ==
    [orderId |-> order_id,
     symbol |-> order_data.symbol,
     orderType |-> order_data.orderType,
     orderStyle |-> order_data.orderStyle,
     quantity |-> order_data.quantity,
     price |-> GetPrice(order_data),
     status |-> "PLACED",
     createdAt |-> "now",
     executedAt |-> "None",
     executionPrice |-> None]

\* Reject with the slip of storing the order before it is validated.
Reject_StoresOrder(order_data, errors) ==
    /\ response' = [status |-> 400, errors |-> errors,
                    order |-> NoOrder, trade |-> NoTrade, data |-> NoData]
    /\ orders' = orders @@ (uuid4(orders) :> MakeOrder(uuid4(orders), order_data))
    /\ UNCHANGED <<trades, portfolio>>

\* The early return on a validation failure.
Reject(order_data, errors) ==
    /\ response' = [status |-> 400, errors |-> errors,
                    order |-> NoOrder, trade |-> NoTrade, data |-> NoData]
    /\ UNCHANGED <<orders, trades, portfolio>>

place_order(order_data) ==
    /\ Cardinality(DOMAIN orders) < MaxOrders
    /\ request' = order_data
    /\ validation' = validate_order(order_data)
    /\ UNCHANGED <<threads, overlapped>>
    /\ LET v == validate_order(order_data)
       IN  IF ~v.is_valid
           THEN Reject(order_data, v.errors)
           ELSE LET order_id == uuid4(orders)
                    ex == execute_order(orders @@ (order_id :> MakeOrder(order_id, order_data)),
                                        trades, portfolio, order_id)
                IN  /\ orders' = ex.orders
                    /\ trades' = ex.trades
                    /\ portfolio' = ex.portfolio
                    /\ response' =
                         IF ex.raised
                         THEN [status |-> 500, errors |-> <<"TypeError">>,
                               order |-> NoOrder, trade |-> NoTrade, data |-> NoData]
                         ELSE [status |-> 201, errors |-> <<>>,
                               order |-> ex.orders[order_id], trade |-> ex.trade,
                               data |-> NoData]

(***************************************************************************)
(* The GET routes                                                          *)
(***************************************************************************)
Ok(data) == [status |-> 200, errors |-> <<>>, order |-> NoOrder, trade |-> NoTrade,
             data |-> data]

\* What a GET route has no statement to write to.
Unwritten == <<orders, trades, portfolio, request, validation, threads, overlapped>>

get_instruments ==
    /\ response' = Ok([kind |-> "instruments", list |-> instruments,
                       count |-> Len(instruments)])
    /\ UNCHANGED Unwritten

get_order_status(order_id) ==
    /\ response' =
         IF order_id \notin DOMAIN orders
         THEN [status |-> 404, errors |-> <<"Order not found">>,
               order |-> NoOrder, trade |-> NoTrade, data |-> NoData]
         ELSE [status |-> 200, errors |-> <<>>,
               order |-> orders[order_id], trade |-> NoTrade, data |-> NoData]
    /\ UNCHANGED Unwritten

\* list(orders.values()): the orders in the order they were stored.
get_all_orders ==
    /\ response' = Ok([kind |-> "orders",
                       list |-> [i \in 1..Cardinality(DOMAIN orders) |-> orders[i]],
                       count |-> Cardinality(DOMAIN orders)])
    /\ UNCHANGED Unwritten

get_trades ==
    /\ response' = Ok([kind |-> "trades", list |-> trades, count |-> Len(trades)])
    /\ UNCHANGED Unwritten

\* round(x, 2) of an amount x in cents: the nearest whole cent, a tie going
\* to the even one.
Round(x) ==
    LET lo == x.n \div x.d
        twice == 2 * (x.n % x.d)
    IN  IF twice < x.d THEN lo
        ELSE IF twice > x.d THEN lo + 1
        ELSE IF lo % 2 = 0 THEN lo ELSE lo + 1

RSub(a, b) == RAdd(a, [n |-> -b.n, d |-> b.d])

\* round((gain / invested) * 100, 2), in hundredths of a percent; 0 when
\* nothing is invested.
Percent(gain, invested) ==
    IF invested.n > 0
    THEN Round(RMulInt(Rat(gain.n * invested.d, gain.d * invested.n), 10000))
    ELSE 0

\* One entry of portfolio_with_current_value.
HoldingReport(holding) ==
    LET current_price == get_instrument_by_symbol(holding.symbol).lastTradedPrice
        current_value == RInt(holding.quantity * current_price)
    IN  [symbol |-> holding.symbol,
         quantity |-> holding.quantity,
         averagePrice |-> Round(holding.averagePrice),
         currentPrice |-> current_price,
         currentValue |-> Round(current_value),
         profitLoss |-> Round(RSub(current_value, holding.totalInvested)),
         profitLossPercent |-> Percent(RSub(current_value, holding.totalInvested),
                                       holding.totalInvested)]

RECURSIVE SumOver(_, _)
SumOver(f, S) ==
    IF S = {} THEN Zero
    ELSE LET x == CHOOSE y \in S : TRUE
         IN  RAdd(f[x], SumOver(f, S \ {x}))

\* The body of GET /api/v1/portfolio.  The holdings are listed without their
\* order (the dict order of portfolio is not kept in the model).
PortfolioReport(pf) ==
    LET reports == [s \in DOMAIN pf |-> HoldingReport(pf[s])]
        total_value == SumOver([s \in DOMAIN pf |-> RInt(reports[s].currentValue)], DOMAIN pf)
        total_invested == SumOver([s \in DOMAIN pf |-> pf[s].totalInvested], DOMAIN pf)
    IN  [kind |-> "portfolio",
         holdings |-> {reports[s] : s \in DOMAIN pf},
         summary |-> [totalValue |-> Round(total_value),
                      totalInvested |-> Round(total_invested),
                      totalProfitLoss |-> Round(RSub(total_value, total_invested)),
                      totalProfitLossPercent |-> Percent(RSub(total_value, total_invested),
                                                         total_invested)],
         count |-> Cardinality(DOMAIN pf)]

\* get_portfolio with the slip of rounding the stored average in place.
get_portfolio_RoundsInPlace ==
    /\ response' = Ok(PortfolioReport(portfolio))
    /\ portfolio' = [s \in DOMAIN portfolio |->
                       [portfolio[s] EXCEPT !.averagePrice = RInt(Round(@))]]
    /\ UNCHANGED <<orders, trades, request, validation, threads, overlapped>>

get_portfolio ==
    /\ response' = Ok(PortfolioReport(portfolio))
    /\ UNCHANGED Unwritten

health_check ==
    /\ response' = Ok([kind |-> "health", status |-> "healthy", timestamp |-> "now"])
    /\ UNCHANGED Unwritten

(***************************************************************************)
(* Calls in flight                                                         *)
(***************************************************************************)
\* The request threads of the server.
Workers == {1, 2}

\* A thread that is serving no request.
IdleThread ==
    [pc |-> "idle", order_data |-> [has |-> {}], order_id |-> 0,
     execution_price |-> None, trade |-> NoTrade,
     total_cost |-> Zero, new_quantity |-> 0]

\* Every thread but w is idle.
Alone(w) == \A v \in Workers \ {w} : threads[v].pc = "idle"

\* Thread w takes a step to pc, with its locals changed as given.
Goes(w, locals) ==
    /\ threads' = [threads EXCEPT ![w] = locals]
    /\ overlapped' = (overlapped \/ ~Alone(w))

\* Thread w returns the response and becomes idle.
Returns(w, resp) ==
    /\ response' = resp
    /\ Goes(w, IdleThread)

\* The order as line 202 builds it.
NewOrder(order_id, order_data) ==
    [MakeOrder(order_id, order_data) EXCEPT !.status = "NEW"]

\* Placed with the slip of leaving the status as it is.
Placed_StaysNew(order) == order

\* order["status"] = OrderStatus.PLACED.value
Placed(order) == [order EXCEPT !.status = "PLACED"]

\* TotalCost(holding, quantity, price) with the slip of forgetting what is held.
TotalCost_Forgets(holding, quantity, price) == RInt(quantity * price)

\* total_cost of the BUY branch.
TotalCost(holding, quantity, price) ==
    RAdd(RMulInt(holding.averagePrice, holding.quantity), RInt(quantity * price))

\* Lines 190-216: the body is read and validated; a valid order is stored NEW.
Begin(w, order_data) ==
    /\ threads[w].pc = "idle"
    /\ Cardinality(DOMAIN orders) < MaxRacedOrders
    /\ request' = order_data
    /\ validation' = validate_order(order_data)
    /\ UNCHANGED <<trades, portfolio>>
    /\ IF ~validate_order(order_data).is_valid
       THEN /\ Returns(w, [status |-> 400, errors |-> validate_order(order_data).errors,
                           order |-> NoOrder, trade |-> NoTrade, data |-> NoData])
            /\ UNCHANGED orders
       ELSE /\ orders' = orders @@ (uuid4(orders) :> NewOrder(uuid4(orders), order_data))
            /\ Goes(w, [IdleThread EXCEPT !.pc = "stored", !.order_data = order_data,
                                          !.order_id = uuid4(orders)])
            /\ UNCHANGED response

\* Line 219.
Place(w) ==
    /\ threads[w].pc = "stored"
    /\ orders' = [orders EXCEPT ![threads[w].order_id] = Placed(@)]
    /\ Goes(w, [threads[w] EXCEPT !.pc = "placed"])
    /\ UNCHANGED <<trades, portfolio, request, response, validation>>

\* Lines 115-127 of execute_order: the price is chosen and the order stamped.
Stamp(w) ==
    /\ threads[w].pc = "placed"
    /\ LET order == orders[threads[w].order_id]
           execution_price == ExecutionPrice(order, get_instrument_by_symbol(order.symbol))
       IN  /\ orders' = [orders EXCEPT ![threads[w].order_id] =
                           [order EXCEPT !.status = "EXECUTED",
                                         !.executedAt = "now",
                                         !.executionPrice = execution_price]]
           /\ Goes(w, [threads[w] EXCEPT !.pc = "stamped",
                                         !.execution_price = execution_price])
    /\ UNCHANGED <<trades, portfolio, request, response, validation>>

InternalError ==
    [status |-> 500, errors |-> <<"TypeError">>,
     order |-> NoOrder, trade |-> NoTrade, data |-> NoData]

\* Lines 130-140: the trade is built and appended.
Record(w) ==
    /\ threads[w].pc = "stamped"
    /\ LET order == orders[threads[w].order_id]
           totalValue == Mul(threads[w].execution_price, order.quantity)
           trade == [tradeId |-> Len(trades) + 1,
                     orderId |-> order.orderId,
                     symbol |-> order.symbol,
                     orderType |-> order.orderType,
                     quantity |-> order.quantity,
                     price |-> threads[w].execution_price,
                     totalValue |-> totalValue,
                     executedAt |-> "now"]
       IN  IF totalValue = TypeError
           THEN /\ Returns(w, InternalError)
                /\ UNCHANGED trades
           ELSE /\ trades' = AppendTrade(trades, trade)
                /\ Goes(w, [threads[w] EXCEPT !.pc = "recorded", !.trade = trade])
                /\ UNCHANGED response
    /\ UNCHANGED <<orders, portfolio, request, validation>>

\* Lines 149-157 of update_portfolio: the holding is created if there is none.
Open(w) ==
    /\ threads[w].pc = "recorded"
    /\ LET symbol == threads[w].trade.symbol
       IN  portfolio' = IF symbol \in DOMAIN portfolio THEN portfolio
                        ELSE portfolio @@ (symbol :> NewHolding(symbol))
    /\ Goes(w, [threads[w] EXCEPT !.pc = "opened"])
    /\ UNCHANGED <<orders, trades, request, response, validation>>

\* Line 161: total_cost is computed from the holding as it is now.
Cost(w) ==
    /\ threads[w].pc = "opened"
    /\ LET t == threads[w].trade
       IN  IF t.price.kind # "num"
           THEN Returns(w, InternalError)
           ELSE /\ Goes(w, [threads[w] EXCEPT
                              !.pc = "costed",
                              !.total_cost = TotalCost(portfolio[t.symbol], t.quantity,
                                                       t.price.v)])
                /\ UNCHANGED response
    /\ UNCHANGED <<orders, trades, portfolio, request, validation>>

\* Line 162: new_quantity is computed from the holding as it is now.
Count(w) ==
    /\ threads[w].pc = "costed"
    /\ LET t == threads[w].trade
       IN  Goes(w, [threads[w] EXCEPT
                      !.pc = "counted",
                      !.new_quantity = portfolio[t.symbol].quantity + t.quantity])
    /\ UNCHANGED <<orders, trades, portfolio, request, response, validation>>

\* Line 163.
WriteQuantity(w) ==
    /\ threads[w].pc = "counted"
    /\ portfolio' = [portfolio EXCEPT ![threads[w].trade.symbol].quantity =
                       threads[w].new_quantity]
    /\ Goes(w, [threads[w] EXCEPT !.pc = "wrote_quantity"])
    /\ UNCHANGED <<orders, trades, request, response, validation>>

\* Line 164.
WriteAverage(w) ==
    /\ threads[w].pc = "wrote_quantity"
    /\ portfolio' = [portfolio EXCEPT ![threads[w].trade.symbol].averagePrice =
                       IF threads[w].new_quantity > 0
                       THEN RDivInt(threads[w].total_cost, threads[w].new_quantity)
                       ELSE Zero]
    /\ Goes(w, [threads[w] EXCEPT !.pc = "wrote_average"])
    /\ UNCHANGED <<orders, trades, request, response, validation>>

\* Line 165, and the 201 response of lines 224-231.
WriteInvested(w) ==
    /\ threads[w].pc = "wrote_average"
    /\ portfolio' = [portfolio EXCEPT ![threads[w].trade.symbol].totalInvested =
                       threads[w].total_cost]
    /\ Returns(w, [status |-> 201, errors |-> <<>>,
                   order |-> orders[threads[w].order_id], trade |-> threads[w].trade,
                   data |-> NoData])
    /\ UNCHANGED <<orders, trades, request, validation>>

(***************************************************************************)
(* Requests explored                                                       *)
(***************************************************************************)
\* The limit price of the test client's LIMIT order (140.00).
TestLimitPrice == 14000

Candidate(has, sym, typ, sty, q, pr) ==
    [has |-> has, symbol |-> sym, orderType |-> typ, orderStyle |-> sty,
     quantity |-> q, price |-> pr]

AllRequired == Values(required_fields)

\* orderStyle with the price field sent along: absent, a number, null, a string.
StylePrices ==
    { <<"MARKET", {}, None>>,
      <<"MARKET", {"price"}, Num(TestLimitPrice)>>,
      <<"LIMIT", {"price"}, Num(TestLimitPrice)>>,
      <<"LIMIT", {"price"}, None>>,
      <<"LIMIT", {"price"}, Str(1)>> }

\* Every well-formed order on AAPL, and market orders on GOOGL.
WellFormed ==
    { Candidate(AllRequired \cup sp[2], "AAPL", t, sp[1], q, sp[3]) :
        t \in {"BUY", "SELL"}, sp \in StylePrices, q \in {1, 2} }
    \cup
    { Candidate(AllRequired, "GOOGL", t, "MARKET", 1, None) : t \in {"BUY", "SELL"} }

\* Orders the validator has something to say about.
Malformed ==
    { Candidate(AllRequired, "RELIANCE", "SELL", "MARKET", 1, None),
      Candidate(AllRequired, "AAPL", "BUY", "MARKET", -5, None),
      Candidate(AllRequired, "AAPL", "BUY", "LIMIT", 10, None),
      Candidate(AllRequired, "AAPL", "HOLD", "STOP", 1, None),
      Candidate(AllRequired \ {"quantity"}, "AAPL", "BUY", "MARKET", 0, None),
      Candidate({"price"}, "", "", "", 0, Num(TestLimitPrice)) }

Requests == WellFormed \cup Malformed

\* The orders sent while the GET routes are exercised: the market orders of
\* the end-to-end walk (buy 10, sell 5) on a listed and on an unlisted symbol,
\* a second holding, and limit buys with a number and with a string price.
ApiRequests ==
    { Candidate(AllRequired, sym, "BUY", "MARKET", 10, None) : sym \in {"AAPL", "RELIANCE"} }
    \cup
    { Candidate(AllRequired, sym, "SELL", "MARKET", 5, None) : sym \in {"AAPL", "RELIANCE"} }
    \cup
    { Candidate(AllRequired, "GOOGL", "BUY", "MARKET", 5, None),
      Candidate(AllRequired \cup {"price"}, "AAPL", "BUY", "LIMIT", 5, Num(TestLimitPrice)),
      Candidate(AllRequired \cup {"price"}, "AAPL", "BUY", "LIMIT", 5, Str(1)) }

\* The orders raced against each other: buys of one symbol (the SELL branch
\* is not taken, so a holding a thread has opened is never deleted under it),
\* with a market price, a limit price, a null and a string price, and a
\* rejected order.
RacedRequests ==
    { Candidate(AllRequired, "AAPL", "BUY", "MARKET", 1, None),
      Candidate(AllRequired \cup {"price"}, "AAPL", "BUY", "LIMIT", 2, Num(TestLimitPrice)),
      Candidate(AllRequired \cup {"price"}, "AAPL", "BUY", "LIMIT", 1, None),
      Candidate(AllRequired \cup {"price"}, "AAPL", "BUY", "LIMIT", 1, Str(1)),
      Candidate(AllRequired, "AAPL", "BUY", "MARKET", -5, None) }

\* The candidates validate_order is tried on: every subset of the five
\* fields, with good and bad values for each field that is present.
ValidateInputs ==
    { Candidate(has,
                IF "symbol" \in has THEN sym ELSE "",
                IF "orderType" \in has THEN typ ELSE "",
                IF "orderStyle" \in has THEN sty ELSE "",
                IF "quantity" \in has THEN q ELSE 0,
                IF "price" \in has THEN pr ELSE None) :
        has \in SUBSET (AllRequired \cup {"price"}),
        sym \in {"AAPL", "RELIANCE"},
        typ \in {"BUY", "SELL", "HOLD"},
        sty \in {"MARKET", "LIMIT", "STOP"},
        q \in {-5, 0, 1},
        pr \in {Num(TestLimitPrice), None} }

(***************************************************************************)
(* Specification                                                           *)
(***************************************************************************)
NoRequest == Candidate({}, "", "", "", 0, None)

\* validate_order has not been called.
NoValidation == [is_valid |-> FALSE, errors |-> <<>>]

NoResponse == [status |-> 0, errors |-> <<>>, order |-> NoOrder, trade |-> NoTrade, data |-> NoData]

Init ==
    /\ orders = << >>
    /\ trades = << >>
    /\ portfolio = << >>
    /\ request = NoRequest
    /\ response = NoResponse
    /\ validation = NoValidation
    /\ threads = [w \in Workers |-> IdleThread]
    /\ overlapped = FALSE

PlaceOrder == \E order_data \in Requests : place_order(order_data)

Next == PlaceOrder

Spec == Init /\ [][Next]_vars

\* Every route of the API.
PlaceOrderApi == \E order_data \in ApiRequests : place_order(order_data)

GetInstruments == get_instruments

GetOrderStatus == \E order_id \in DOMAIN orders \cup {0} : get_order_status(order_id)

GetAllOrders == get_all_orders

GetTrades == get_trades

GetPortfolio == get_portfolio

HealthCheck == health_check

NextApi ==
    \/ PlaceOrderApi
    \/ GetInstruments
    \/ GetOrderStatus
    \/ GetAllOrders
    \/ GetTrades
    \/ GetPortfolio
    \/ HealthCheck

SpecApi == Init /\ [][NextApi]_vars

\* place_order run by the threads of the server, a line at a time.
NextRaced ==
    \E w \in Workers :
        \/ \E order_data \in RacedRequests : Begin(w, order_data)
        \/ Place(w)
        \/ Stamp(w)
        \/ Record(w)
        \/ Open(w)
        \/ Cost(w)
        \/ Count(w)
        \/ WriteQuantity(w)
        \/ WriteAverage(w)
        \/ WriteInvested(w)

SpecRaced == Init /\ [][NextRaced]_vars

\* validate_order alone, applied to one candidate after another.
ValidateOrder ==
    \E order_data \in ValidateInputs :
        /\ request' = order_data
        /\ validation' = validate_order(order_data)
        /\ UNCHANGED <<orders, trades, portfolio, response, threads, overlapped>>

SpecValidate == Init /\ [][ValidateOrder]_vars

(***************************************************************************)
(* Properties                                                              *)
(***************************************************************************)
Stores == <<orders, trades, portfolio>>

HeldQuantity(pf, symbol) == IF symbol \in DOMAIN pf THEN pf[symbol].quantity ELSE 0

HeldAverage(pf, symbol) == IF symbol \in DOMAIN pf THEN pf[symbol].averagePrice ELSE Zero

\* The request carries every required field and asks to sell.
IsSell(order_data) == AllRequired \subseteq order_data.has /\ order_data.orderType = "SELL"

TradesOf(order_id) == {i \in 1..Len(trades) : trades[i].orderId = order_id}

\* C1: a SELL for more than the portfolio holds of the symbol (nothing, or a
\* smaller quantity) is answered 400 with the insufficient-holdings error.
C1_SellBeyondHoldingsRejected ==
    [][ (IsSell(request') /\ HeldQuantity(portfolio, request'.symbol) < request'.quantity)
        => response'.status = 400 ]_vars

\* C2: update_portfolio is never applied to a SELL whose quantity exceeds the
\* holding of the symbol, so the subtraction never goes below zero.
C2_SellNeverExceedsHolding ==
    [][ (Len(trades') > Len(trades) /\ trades'[Len(trades')].orderType = "SELL")
        => HeldQuantity(portfolio, trades'[Len(trades')].symbol)
             - trades'[Len(trades')].quantity >= 0 ]_vars

\* C3: a submission answered 400 leaves the order store, the trade list and
\* the portfolio as they were.
C3_RejectionMutatesNothing ==
    [][ response'.status = 400 => Stores' = Stores ]_vars

\* A rejection that arrived after orders had executed and positions existed.
C3_Witness ==
    /\ response.status = 400
    /\ DOMAIN orders # {}
    /\ trades # <<>>
    /\ DOMAIN portfolio # {}

\* C4: every trade's orderId is a key of the order store, and every EXECUTED
\* order has exactly one trade.
C4_TradesMatchExecutedOrders ==
    /\ \A i \in 1..Len(trades) : trades[i].orderId \in DOMAIN orders
    /\ \A id \in DOMAIN orders :
         orders[id].status = "EXECUTED" => Cardinality(TradesOf(id)) = 1

\* C5: a submission either stores the order EXECUTED, appends its trade and
\* updates the ledger, or changes none of the three stores.
C5_AllOrNothing ==
    [][ \/ Stores' = Stores
        \/ \E id \in DOMAIN orders' \ DOMAIN orders :
             /\ DOMAIN orders' = DOMAIN orders \cup {id}
             /\ orders'[id].status = "EXECUTED"
             /\ Len(trades') = Len(trades) + 1
             /\ trades'[Len(trades')].orderId = id
             /\ LET o == orders'[id]
                    up == update_portfolio(portfolio, o.symbol, o.orderType,
                                           o.quantity, o.executionPrice)
                IN  ~up.raised /\ portfolio' = up.portfolio ]_vars

\* C6: every position with quantity > 0 has averagePrice * quantity = totalInvested.
C6_AverageTimesQuantityIsInvested ==
    \A s \in DOMAIN portfolio :
        portfolio[s].quantity > 0 =>
            portfolio[s].averagePrice.n * portfolio[s].quantity * portfolio[s].totalInvested.d
              = portfolio[s].totalInvested.n * portfolio[s].averagePrice.d

\* A position with a fractional average of which a part has just been sold.
C6_Witness ==
    /\ response.status = 201
    /\ response.order.orderType = "SELL"
    /\ response.order.symbol \in DOMAIN portfolio
    /\ portfolio[response.order.symbol].averagePrice.d > 1
    /\ portfolio[response.order.symbol].totalInvested.d > 1

\* C7: an accepted BUY of q at p on a position of oldQty at oldAvg leaves
\* quantity oldQty + q, totalInvested oldQty*oldAvg + q*p and averagePrice
\* (oldQty*oldAvg + q*p) / (oldQty + q).
C7_BuyWeightedAverage ==
    [][ (response'.status = 201 /\ response'.order.orderType = "BUY") =>
        LET s == response'.order.symbol
            q == response'.order.quantity
            p == response'.trade.price.v
            oldQty == HeldQuantity(portfolio, s)
            oldAvg == HeldAverage(portfolio, s)
            \* oldQty*oldAvg + q*p as the fraction costN / oldAvg.d
            costN == oldQty * oldAvg.n + q * p * oldAvg.d
        IN  /\ s \in DOMAIN portfolio'
            /\ portfolio'[s].quantity = oldQty + q
            /\ portfolio'[s].totalInvested.n * oldAvg.d
                 = costN * portfolio'[s].totalInvested.d
            /\ portfolio'[s].averagePrice.n * oldAvg.d * (oldQty + q)
                 = costN * portfolio'[s].averagePrice.d ]_vars

\* A BUY accepted on a symbol already held at a different price.
C7_Witness ==
    /\ response.status = 201
    /\ response.order.orderType = "BUY"
    /\ response.order.symbol \in DOMAIN portfolio
    /\ portfolio[response.order.symbol].quantity > response.order.quantity
    /\ portfolio[response.order.symbol].averagePrice # RInt(response.trade.price.v)

\* C8: an accepted SELL that leaves a quantity > 0 keeps averagePrice, takes
\* the order quantity off the position's quantity and sets totalInvested to
\* newQuantity * averagePrice, whatever the price it executed at.
C8_SellKeepsAverage ==
    [][ ( /\ response'.status = 201
          /\ response'.order.orderType = "SELL"
          /\ HeldQuantity(portfolio, response'.order.symbol) - response'.order.quantity > 0 )
        =>
        LET s == response'.order.symbol
            q == response'.order.quantity
        IN  /\ s \in DOMAIN portfolio'
            /\ portfolio'[s].averagePrice = portfolio[s].averagePrice
            /\ portfolio'[s].quantity = portfolio[s].quantity - q
            /\ portfolio'[s].totalInvested.n * portfolio[s].averagePrice.d
                 = (portfolio[s].quantity - q) * portfolio[s].averagePrice.n
                     * portfolio'[s].totalInvested.d ]_vars

\* A part of a position sold at a limit price other than its average cost.
C8_Witness ==
    /\ response.status = 201
    /\ response.order.orderType = "SELL"
    /\ response.order.orderStyle = "LIMIT"
    /\ response.order.symbol \in DOMAIN portfolio
    /\ response.trade.price.kind = "num"
    /\ portfolio[response.order.symbol].averagePrice # RInt(response.trade.price.v)

\* C9: a position leaves the portfolio exactly when an accepted SELL brings
\* its quantity to exactly zero.
C9_RemovedExactlyAtZero ==
    [][ \A s \in DOMAIN portfolio \cup DOMAIN portfolio' :
          (s \in DOMAIN portfolio /\ s \notin DOMAIN portfolio')
          <=> ( /\ s \in DOMAIN portfolio
                /\ response'.status = 201
                /\ response'.order.orderType = "SELL"
                /\ response'.order.symbol = s
                /\ portfolio[s].quantity - response'.order.quantity = 0 ) ]_vars

\* C10: an executed order's executionPrice, and the price of its trade, is
\* the instrument's lastTradedPrice for a MARKET order and the submitted
\* price for a LIMIT order.
C10_ExecutionPrice ==
    [][ \A id \in DOMAIN orders' \ DOMAIN orders :
          orders'[id].status = "EXECUTED" =>
            /\ \/ /\ request'.orderStyle = "MARKET"
                  /\ \E i \in 1..Len(instruments) :
                       /\ instruments[i].symbol = request'.symbol
                       /\ orders'[id].executionPrice = Num(instruments[i].lastTradedPrice)
               \/ /\ request'.orderStyle = "LIMIT"
                  /\ "price" \in request'.has
                  /\ orders'[id].executionPrice = request'.price
            /\ \A i \in 1..Len(trades') :
                 trades'[i].orderId = id => trades'[i].price = orders'[id].executionPrice ]_vars

\* A MARKET order sent with a price other than the last traded price, and a
\* LIMIT order filled away from the last traded price, both executed.
C10_Witness ==
    /\ \E id \in DOMAIN orders :
         /\ orders[id].orderStyle = "MARKET"
         /\ orders[id].status = "EXECUTED"
         /\ orders[id].price.kind = "num"
         /\ orders[id].price # orders[id].executionPrice
         /\ TradesOf(id) # {}
    /\ \E id \in DOMAIN orders :
         /\ orders[id].orderStyle = "LIMIT"
         /\ orders[id].status = "EXECUTED"
         /\ orders[id].executionPrice.kind = "num"
         /\ orders[id].executionPrice
              # Num(get_instrument_by_symbol(orders[id].symbol).lastTradedPrice)
         /\ TradesOf(id) # {}

\* C11: a LIMIT order whose price is absent, null or not a number is answered
\* 400; it is never accepted and never executed.
C11_LimitNeedsNumericPrice ==
    [][ ( /\ AllRequired \subseteq request'.has
          /\ request'.orderStyle = "LIMIT"
          /\ ("price" \notin request'.has \/ request'.price.kind # "num") )
        => ( /\ response'.status = 400
             /\ DOMAIN orders' = DOMAIN orders
             /\ trades' = trades ) ]_vars

\* The checks of the validator a candidate with every required field violates.
Violations(order_data, pf) ==
    {c \in {"quantity", "orderType", "orderStyle", "price", "symbol", "holdings"} :
        \/ c = "quantity" /\ ~(order_data.quantity > 0)
        \/ c = "orderType" /\ order_data.orderType \notin {"BUY", "SELL"}
        \/ c = "orderStyle" /\ order_data.orderStyle \notin {"MARKET", "LIMIT"}
        \/ c = "price" /\ order_data.orderStyle = "LIMIT" /\ "price" \notin order_data.has
        \/ c = "symbol" /\ \A i \in 1..Len(instruments) :
                               instruments[i].symbol # order_data.symbol
        \/ c = "holdings" /\ order_data.orderType = "SELL"
                           /\ HeldQuantity(pf, order_data.symbol) < order_data.quantity}

\* C12: for a candidate with all four required fields validate_order returns
\* one error per violated check (quantity, orderType, orderStyle, price for
\* LIMIT, symbol, holdings for SELL), and the order is valid iff there is none.
C12_OneErrorPerViolation ==
    (validation # NoValidation /\ AllRequired \subseteq request.has) =>
        /\ Len(validation.errors) = Cardinality(Violations(request, portfolio))
        /\ validation.is_valid <=> validation.errors = <<>>

MissingFields(order_data) == AllRequired \ order_data.has

\* C16: when a required field is absent validate_order returns exactly one
\* "Missing required field" error per absent field and nothing else.
C16_MissingFieldsOnly ==
    (validation # NoValidation /\ MissingFields(request) # {}) =>
        /\ ~validation.is_valid
        /\ Len(validation.errors) = Cardinality(MissingFields(request))
        /\ \A f \in MissingFields(request) :
             \E i \in 1..Len(validation.errors) :
                 validation.errors[i] = "Missing required field: " \o f
        /\ \A i \in 1..Len(validation.errors) :
             \E f \in MissingFields(request) :
                 validation.errors[i] = "Missing required field: " \o f

\* Two fields are absent and the ones sent would each fail a later check.
C16_Witness ==
    /\ validation # NoValidation
    /\ MissingFields(request) = {"symbol", "orderStyle"}
    /\ request.quantity <= 0
    /\ request.orderType = "HOLD"
    /\ Len(validation.errors) = 2

\* C14: a GET route (answered 200 or 404) leaves orders, trades and portfolio
\* as they were, and a portfolio query that follows a portfolio query returns
\* the same holdings and summary.
C14_ReadsChangeNothing ==
    [][ /\ response'.status \in {200, 404} => Stores' = Stores
        /\ (response.data.kind = "portfolio" /\ response'.data.kind = "portfolio")
             => response'.data = response.data ]_vars

\* A portfolio query answered with two holdings, one at a fractional average.
C14_Witness ==
    /\ response.status = 200
    /\ response.data.kind = "portfolio"
    /\ Cardinality(response.data.holdings) = 2
    /\ \E s \in DOMAIN portfolio : portfolio[s].averagePrice.d > 1
    /\ response.data.summary.totalProfitLoss # 0

\* The market order of the end-to-end walk.
IsMarketOrder(order, typ, sym, q) ==
    /\ order.orderType = typ
    /\ order.symbol = sym
    /\ order.orderStyle = "MARKET"
    /\ order.quantity = q

\* The end-to-end walk on sym: on empty stores a MARKET BUY of 10 is accepted
\* at 175.50 and leaves Position{10, 175.50}; the MARKET SELL of 5 that
\* follows is accepted and leaves Position{5, 175.50} and two trades worth
\* 1755.00 and 877.50.
Walk(sym) ==
    LET buy == Candidate(AllRequired, sym, "BUY", "MARKET", 10, None)
        sell == Candidate(AllRequired, sym, "SELL", "MARKET", 5, None)
        posted == response.status \in {201, 400, 500}
    IN  /\ ( /\ posted /\ request = buy
             /\ DOMAIN orders \subseteq {1}
             /\ 1 \in DOMAIN orders => IsMarketOrder(orders[1], "BUY", sym, 10) )
           => /\ response.status = 201
              /\ response.order.executionPrice = Num(17550)
              /\ sym \in DOMAIN portfolio
              /\ portfolio[sym].quantity = 10
              /\ portfolio[sym].averagePrice = RInt(17550)
              /\ Len(trades) = 1
              /\ trades[1].totalValue = Num(175500)
        /\ ( /\ posted /\ request = sell
             /\ DOMAIN orders \subseteq {1, 2}
             /\ 1 \in DOMAIN orders /\ IsMarketOrder(orders[1], "BUY", sym, 10)
             /\ 2 \in DOMAIN orders => IsMarketOrder(orders[2], "SELL", sym, 5) )
           => /\ response.status = 201
              /\ sym \in DOMAIN portfolio
              /\ portfolio[sym].quantity = 5
              /\ portfolio[sym].averagePrice = RInt(17550)
              /\ Len(trades) = 2
              /\ trades[1].totalValue = Num(175500)
              /\ trades[2].totalValue = Num(87750)

\* C15 as stated: the walk on RELIANCE.
C15_WalkOnReliance == Walk("RELIANCE")

\* C15 amended: the walk on AAPL, the instrument the catalog lists at 175.50.
C15_WalkOnAapl == Walk("AAPL")

\* BUY 10 AAPL then SELL 5 AAPL have executed on stores that were empty.
C15_Witness ==
    /\ Cardinality(DOMAIN orders) = 2
    /\ IsMarketOrder(orders[1], "BUY", "AAPL", 10)
    /\ IsMarketOrder(orders[2], "SELL", "AAPL", 5)
    /\ response.status = 201
    /\ Len(trades) = 2

\* C17: a stored order is never removed and never changes once its request
\* has returned; a recorded trade is never removed, moved or altered.
C17_AppendOnly ==
    [][ /\ \A id \in DOMAIN orders : id \in DOMAIN orders' /\ orders'[id] = orders[id]
        /\ Len(trades') >= Len(trades)
        /\ \A i \in 1..Len(trades) : trades'[i] = trades[i] ]_vars

\* Orders and trades recorded by three requests, then read back.
C17_Witness ==
    /\ Cardinality(DOMAIN orders) = 3
    /\ Len(trades) = 3
    /\ response.status = 200
    /\ response.data.kind = "trades"

RECURSIVE NetTraded(_, _)
\* BUY quantities minus SELL quantities of the symbol over the first n trades.
NetTraded(symbol, n) ==
    IF n = 0 THEN 0
    ELSE NetTraded(symbol, n - 1)
         + (IF trades[n].symbol # symbol THEN 0
            ELSE IF trades[n].orderType = "BUY" THEN trades[n].quantity
            ELSE -trades[n].quantity)

CatalogSymbols == {instruments[i].symbol : i \in 1..Len(instruments)}

\* C19: for every symbol the position's quantity is the BUY quantities minus
\* the SELL quantities of its trades, and the symbol is absent from the
\* portfolio iff that net is zero.
C19_LedgerMatchesTrades ==
    \A s \in CatalogSymbols \cup DOMAIN portfolio :
        /\ s \in DOMAIN portfolio => portfolio[s].quantity = NetTraded(s, Len(trades))
        /\ s \notin DOMAIN portfolio <=> NetTraded(s, Len(trades)) = 0

\* C20: every entry of the portfolio has quantity > 0 and a symbol of the
\* catalog, so no portfolio report lists a zero-quantity holding.
C20_PositionsArePositive ==
    /\ \A s \in DOMAIN portfolio :
         portfolio[s].quantity > 0 /\ s \in CatalogSymbols
    /\ response.data.kind = "portfolio" =>
         \A h \in response.data.holdings : h.quantity > 0

\* The call that stored the order has returned.
Completed(order_id) == \A w \in Workers : threads[w].order_id # order_id

\* The thread running the call that stored the order.
CallOf(order_id) == CHOOSE w \in Workers : threads[w].order_id = order_id

\* One step moves the status of the orders forward only: a new order is
\* stored NEW, and a stored order goes NEW -> PLACED or PLACED -> EXECUTED in
\* a step of the call that stored it, EXECUTED only for a body that passed
\* validation.
StatusStep ==
    \A id \in DOMAIN orders' :
        IF id \notin DOMAIN orders
        THEN orders'[id].status = "NEW"
        ELSE orders'[id].status # orders[id].status =>
               /\ ~Completed(id)
               /\ threads'[CallOf(id)] # threads[CallOf(id)]
               /\ <<orders[id].status, orders'[id].status>>
                    \in {<<"NEW", "PLACED">>, <<"PLACED", "EXECUTED">>}
               /\ orders'[id].status = "EXECUTED" =>
                    validate_order(threads[CallOf(id)].order_data).is_valid

\* C13: the status of an order only moves NEW -> PLACED -> EXECUTED, within
\* the call of place_order that stored it; execute_order stamps only an order
\* that passed validation and is PLACED; and every order whose call has
\* returned is EXECUTED, never NEW, PLACED or CANCELLED.
C13_StatusMovesForward ==
    /\ [][StatusStep]_vars
    /\ [](\A id \in DOMAIN orders : Completed(id) => orders[id].status = "EXECUTED")

\* Two calls have returned, one of them with the 500 of a null limit price,
\* and both orders are stored EXECUTED.
C13_Witness ==
    /\ \A w \in Workers : threads[w].pc = "idle"
    /\ DOMAIN orders = {1, 2}
    /\ \A id \in DOMAIN orders : orders[id].status = "EXECUTED"
    /\ \E id \in DOMAIN orders : orders[id].executionPrice = None
    /\ \E id \in DOMAIN orders : orders[id].executionPrice # None

\* The stored orders as they were when execute_order was called on them.
AsPlaced ==
    [id \in DOMAIN orders |->
        Placed([orders[id] EXCEPT !.executedAt = "None", !.executionPrice = None])]

RECURSIVE SerialRun(_)
\* The stores after execute_order has run to its end on the orders of ids,
\* one call after the other in that sequence.
SerialRun(ids) ==
    IF ids = << >>
    THEN [orders |-> AsPlaced, trades |-> << >>, portfolio |-> << >>]
    ELSE LET before == SerialRun(SubSeq(ids, 1, Len(ids) - 1))
         IN  execute_order(before.orders, before.trades, before.portfolio,
                           ids[Len(ids)])

\* The ids of the stored orders in the sequence they were stored.
InOrder == [i \in 1..Cardinality(DOMAIN orders) |-> i]

AllIdle == \A w \in Workers : threads[w].pc = "idle"

\* C18: calls of place_order that never ran side by side leave the stores as
\* execute_order run on the orders one after the other leaves them; two calls
\* interleaved between the read of the holding and its write reach a
\* portfolio that neither sequence of the two produces (C18_Witness).
C18_SerialCallsMatchSerialRun ==
    (AllIdle /\ ~overlapped) =>
        /\ orders = SerialRun(InOrder).orders
        /\ trades = SerialRun(InOrder).trades
        /\ portfolio = SerialRun(InOrder).portfolio

\* Two buys of the same symbol have both returned 201 after running side by
\* side, and the position holds less than the two bought: a quantity update
\* is lost, and the portfolio is that of neither serial sequence.
C18_Witness ==
    /\ AllIdle
    /\ overlapped
    /\ DOMAIN orders = {1, 2}
    /\ Len(trades) = 2
    /\ \A i \in 1..2 : trades[i].price.kind = "num" /\ trades[i].symbol = "AAPL"
    /\ response.status = 201
    /\ portfolio["AAPL"].quantity < trades[1].quantity + trades[2].quantity
    /\ portfolio \notin {SerialRun(<<1, 2>>).portfolio, SerialRun(<<2, 1>>).portfolio}

====
